---- MODULE Spec2Model ----
(***************************************************************************)
(* Labyrinth: randomized depth-first maze carving (src/src/maze.rs) and    *)
(* its driver (src/src/main.rs).                                           *)
(*                                                                         *)
(* One behaviour is one run of main: Maze::new, populate (seed cell, the   *)
(* carving loop one iteration per step, the forward scan placing Start,    *)
(* the reverse scan placing End) and save_to_file.  The random source is   *)
(* modelled by nondeterministic choice: the start coordinate is any cell   *)
(* of the grid and every shuffle is any permutation of the 4 candidates.   *)
(***************************************************************************)
EXTENDS Integers, Sequences, FiniteSets, TLC

VARIABLES
    width,      \* Maze.width
    height,     \* Maze.height
    data,       \* Maze.data    : Grid<TileState>
    visited,    \* Maze.visited : Grid<bool>
    stack,      \* populate's local `stack`
    start,      \* populate's locals (start_x, start_y), None before they are drawn
    pc,         \* position of main / populate
    file,       \* the image file written by save_to_file, None while there is none
    ub,         \* an unchecked write went outside its grid: behaviour is undefined
    pushes,     \* history: per storage index, how often the coordinate was pushed
    parent,     \* history: per storage index, the stack top that pushed the cell
    iters,      \* history: iterations of the while loop run so far
    rdata,      \* tile grid of the signed-coordinate variant run on the same choices
    rvisited,   \* visited grid of the signed-coordinate variant
    rstack      \* stack of the signed-coordinate variant

vars == <<width, height, data, visited, stack, start, pc, file, ub, pushes, parent,
          iters, rdata, rvisited, rstack>>

\* Largest width and height of the mazes explored.
MaxWidth == 3
MaxHeight == 3

\* Option<T>: None, Some(value)
None == <<>>
Some(value) == <<value>>

TileState == {"Wall", "Empty", "Start", "End"}
Direction == {"North", "South", "East", "West"}

-----------------------------------------------------------------------------
(* Grid<T> of the grid crate, as Maze uses it: rows * cols cells stored     *)
(* row after row in one vector; get(row, col) is bounds-checked.            *)

GridInit(rows, cols, value) ==
    [rows |-> rows, cols |-> cols, cells |-> [i \in 1..(rows * cols) |-> value]]

\* impl Default for TileState
DefaultTile == "Wall"

GridNew(rows, cols) == GridInit(rows, cols, DefaultTile)

GridIndex(g, row, col) == row * g.cols + col + 1

\* the bounds test of get and get_mut
InBounds(g, row, col) == row >= 0 /\ col >= 0 /\ row < g.rows /\ col < g.cols

GridGet(g, row, col) ==
    IF InBounds(g, row, col)
    THEN Some(g.cells[GridIndex(g, row, col)])
    ELSE None

GridSet(g, row, col, value) ==
    [g EXCEPT !.cells[GridIndex(g, row, col)] = value]

\* get_unchecked_mut: no bounds check, the write lands on the computed index
\* (outside the grid the behaviour is undefined: the callers record it in ub).
GridSetUnchecked(g, row, col, value) ==
    IF GridIndex(g, row, col) \in DOMAIN g.cells
    THEN [g EXCEPT !.cells[GridIndex(g, row, col)] = value]
    ELSE g

\* usize::saturating_sub(1)
SatSub1(n) == IF n = 0 THEN 0 ELSE n - 1

-----------------------------------------------------------------------------
(* Maze::is_valid_neighbour                                                 *)

\* !matches!(self.data.get(..), Some(TileState::Wall) | None)
Carved(t) == t \notin {Some("Wall"), None}

Counts(d, x, y, excluded, direction) ==
    IF Carved(GridGet(d, x, y)) /\ direction \notin excluded THEN 1 ELSE 0

\* is_valid_neighbour with the visited test dropped
is_valid_neighbour_novisit(d, v, x, y, direction) ==
    LET xs == SatSub1(x)
        ys == SatSub1(y)
    IN    Counts(d, x + 1, y,     {"West"},          direction)
        + Counts(d, x,     y + 1, {"South"},         direction)
        + Counts(d, x + 1, y + 1, {"South", "West"}, direction)
        + Counts(d, xs,    y,     {"East"},          direction)
        + Counts(d, xs,    y + 1, {"South", "East"}, direction)
        + Counts(d, x,     ys,    {"North"},         direction)
        + Counts(d, x + 1, ys,    {"North", "West"}, direction)
        + Counts(d, xs,    ys,    {"North", "East"}, direction) = 0

\* is_valid_neighbour with the surrounding cells not counted
is_valid_neighbour_visitonly(d, v, x, y, direction) ==
    GridGet(v, x, y) = Some(FALSE)

\* is_valid_neighbour with the four diagonal cells not counted
is_valid_neighbour_nodiag(d, v, x, y, direction) ==
    LET xs == SatSub1(x)
        ys == SatSub1(y)
        count ==
              Counts(d, x + 1, y,     {"West"},          direction)
            + Counts(d, x,     y + 1, {"South"},         direction)
            + Counts(d, xs,    y,     {"East"},          direction)
            + Counts(d, x,     ys,    {"North"},         direction)
    IN  count = 0 /\ GridGet(v, x, y) = Some(FALSE)

is_valid_neighbour(d, v, x, y, direction) ==
    LET xs == SatSub1(x)
        ys == SatSub1(y)
        count ==
              Counts(d, x + 1, y,     {"West"},          direction)
            + Counts(d, x,     y + 1, {"South"},         direction)
            + Counts(d, x + 1, y + 1, {"South", "West"}, direction)
            + Counts(d, xs,    y,     {"East"},          direction)
            + Counts(d, xs,    y + 1, {"South", "East"}, direction)
            + Counts(d, x,     ys,    {"North"},         direction)
            + Counts(d, x + 1, ys,    {"North", "West"}, direction)
            + Counts(d, xs,    ys,    {"North", "East"}, direction)
    IN  count = 0 /\ GridGet(v, x, y) = Some(FALSE)

-----------------------------------------------------------------------------
(* Maze::populate                                                           *)

\* the candidates of the stack top (x, y), South and West faulty at 0
neighbours_reflect(x, y) ==
    << <<x, y + 1, "North">>,
       <<x + 1, y, "East">>,
       <<x, IF y = 0 THEN 1 ELSE y - 1, "South">>,
       <<IF x = 0 THEN 1 ELSE x - 1, y, "West">> >>

\* the candidates of the stack top (x, y), the North one not moved
neighbours_nonorth(x, y) ==
    << <<x, y, "North">>,
       <<x + 1, y, "East">>,
       <<x, SatSub1(y), "South">>,
       <<SatSub1(x), y, "West">> >>

\* the candidates of the stack top (x, y), before the shuffle
neighbours(x, y) ==
    << <<x, y + 1, "North">>,
       <<x + 1, y, "East">>,
       <<x, SatSub1(y), "South">>,
       <<SatSub1(x), y, "West">> >>

\* the outcomes of neighbours.shuffle(rng): the orders of the 4 candidates
Shuffles == {p \in [1..4 -> 1..4] : \A i, j \in 1..4 : p[i] = p[j] => i = j}

\* what self.is_valid_neighbour answers for each of the 4 candidates
Valid(d, v, cands) ==
    [i \in 1..4 |-> is_valid_neighbour(d, v, cands[i][1], cands[i][2], cands[i][3])]

\* the find looking at the first shuffled candidate only
FindValid_firstonly(cands, ok, p) ==
    IF ok[p[1]] THEN cands[p[1]] ELSE None

\* neighbours.shuffle(rng) to the order p, then
\* .iter().copied().find(|(x, y, d)| self.is_valid_neighbour(*x, *y, *d)):
\* the first candidate of the shuffled vector that is valid, or None
FindValid(cands, ok, p) ==
    LET hits == {i \in 1..4 : ok[p[i]]}
    IN  IF hits = {} THEN None
        ELSE cands[p[CHOOSE i \in hits : \A j \in hits : i <= j]]

Top(s) == s[Len(s)]

\* stack.truncate(stack.len() - 1)
Truncate(s) == SubSeq(s, 1, Len(s) - 1)

\* the loop body pushing the neighbour without carving the current cell
Iterate_pushnocarve(d, v, s, found) ==
    LET x == Top(s)[1]
        y == Top(s)[2]
    IN  IF GridGet(d, x, y) # None
        THEN IF found # None
             THEN << d,
                     GridSetUnchecked(v, found[1], found[2], TRUE),
                     Append(s, <<found[1], found[2]>>) >>
             ELSE << GridSet(d, x, y, "Empty"), v, Truncate(s) >>
        ELSE << d, v, Truncate(s) >>

\* the loop body popping a dead end without carving it
Iterate_popnocarve(d, v, s, found) ==
    LET x == Top(s)[1]
        y == Top(s)[2]
    IN  IF GridGet(d, x, y) # None /\ found # None
        THEN << GridSet(d, x, y, "Empty"),
                GridSetUnchecked(v, found[1], found[2], TRUE),
                Append(s, <<found[1], found[2]>>) >>
        ELSE << d, v, Truncate(s) >>

\* the loop body clearing the visited flag of the cell it pops
Iterate_unvisit(d, v, s, found) ==
    LET x == Top(s)[1]
        y == Top(s)[2]
    IN  IF GridGet(d, x, y) # None
        THEN IF found # None
             THEN << GridSet(d, x, y, "Empty"),
                     GridSetUnchecked(v, found[1], found[2], TRUE),
                     Append(s, <<found[1], found[2]>>) >>
             ELSE << GridSet(d, x, y, "Empty"),
                     GridSetUnchecked(v, x, y, FALSE),
                     Truncate(s) >>
        ELSE << d, v, Truncate(s) >>

\* one iteration of the while loop on (data, visited, stack), `found` being
\* what the find over the shuffled candidates returned: the new
\* <<data, visited, stack>>
Iterate(d, v, s, found) ==
    LET x == Top(s)[1]
        y == Top(s)[2]
    IN  IF GridGet(d, x, y) # None
        THEN IF found # None
             THEN << GridSet(d, x, y, "Empty"),
                     GridSetUnchecked(v, found[1], found[2], TRUE),
                     Append(s, <<found[1], found[2]>>) >>
             ELSE << GridSet(d, x, y, "Empty"), v, Truncate(s) >>
        ELSE << d, v, Truncate(s) >>

\* the forward scan without the find: every Empty tile is overwritten
MarkFirstEmpty_all(g, value) ==
    [g EXCEPT !.cells = [i \in DOMAIN g.cells |->
                            IF g.cells[i] = "Empty" THEN value ELSE g.cells[i]]]

\* data.iter_mut().find(|tile| *tile == &TileState::Empty), *tile = Start
MarkFirstEmpty(g, value) ==
    LET empties == {i \in DOMAIN g.cells : g.cells[i] = "Empty"}
    IN  IF empties = {} THEN g
        ELSE [g EXCEPT !.cells[CHOOSE i \in empties : \A j \in empties : i <= j] = value]

\* the reverse scan matching every carved tile, Start included
MarkLastEmpty_carved(g, value) ==
    LET carved == {i \in DOMAIN g.cells : g.cells[i] # "Wall"}
    IN  IF carved = {} THEN g
        ELSE [g EXCEPT !.cells[CHOOSE i \in carved : \A j \in carved : i >= j] = value]

\* the reverse scan without .rev()
MarkLastEmpty_norev(g, value) ==
    LET empties == {i \in DOMAIN g.cells : g.cells[i] = "Empty"}
    IN  IF empties = {} THEN g
        ELSE [g EXCEPT !.cells[CHOOSE i \in empties : \A j \in empties : i <= j] = value]

\* data.iter_mut().rev().find(|tile| *tile == &TileState::Empty), *tile = End
MarkLastEmpty(g, value) ==
    LET empties == {i \in DOMAIN g.cells : g.cells[i] = "Empty"}
    IN  IF empties = {} THEN g
        ELSE [g EXCEPT !.cells[CHOOSE i \in empties : \A j \in empties : i >= j] = value]

-----------------------------------------------------------------------------
(* The signed-coordinate variant of the candidates: a step south or west    *)
(* of row / column 0 gives a negative coordinate and is discarded.          *)

neighboursSigned(x, y) ==
    << <<x, y + 1, "North">>,
       <<x + 1, y, "East">>,
       <<x, y - 1, "South">>,
       <<x - 1, y, "West">> >>

\* a candidate with a negative coordinate is discarded as not valid
ValidSigned(d, v, cands) ==
    [i \in 1..4 |-> /\ cands[i][1] >= 0
                    /\ cands[i][2] >= 0
                    /\ is_valid_neighbour(d, v, cands[i][1], cands[i][2], cands[i][3])]

-----------------------------------------------------------------------------
(* Maze::save_to_file                                                       *)

\* impl From<&TileState> for RGB8
RGB8(tile) ==
    CASE tile = "Wall"  -> <<0, 0, 0>>
      [] tile = "Empty" -> <<255, 255, 255>>
      [] tile = "Start" -> <<0, 255, 0>>
      [] tile = "End"   -> <<255, 0, 0>>

\* png::Encoder::new(w, self.width, self.height) fed self.data.iter() mapped to RGB8
Encode(w, h, g) ==
    [width |-> w, height |-> h, pixels |-> [i \in DOMAIN g.cells |-> RGB8(g.cells[i])]]

\* the pixel of an image at (row, col): rows of `width` pixels, top row first
PixelAt(img, row, col) == img.pixels[row * img.width + col + 1]

-----------------------------------------------------------------------------
(* The run of main                                                          *)

\* let mut maze = Maze::new(opt.width, opt.height)
Init ==
    /\ width \in 0..MaxWidth
    /\ height \in 0..MaxHeight
    /\ data = GridNew(width, height)
    /\ visited = GridInit(width, height, FALSE)
    /\ stack = <<>>
    /\ start = None
    /\ pc = "new"
    /\ file = None
    /\ ub = FALSE
    /\ pushes = [i \in 1..(width * height) |-> 0]
    /\ parent = [i \in 1..(width * height) |-> None]
    /\ iters = 0
    /\ rdata = GridNew(width, height)
    /\ rvisited = GridInit(width, height, FALSE)
    /\ rstack = <<>>

\* history of stack.push(coord): one more push of the coordinate
CountPush(hist, g, coord) ==
    IF GridIndex(g, coord[1], coord[2]) \in DOMAIN hist
    THEN [hist EXCEPT ![GridIndex(g, coord[1], coord[2])] = @ + 1]
    ELSE hist

\* history of stack.push(coord): the stack top `from` pushed the coordinate
RecordParent(hist, g, coord, from) ==
    IF GridIndex(g, coord[1], coord[2]) \in DOMAIN hist
    THEN [hist EXCEPT ![GridIndex(g, coord[1], coord[2])] = from]
    ELSE hist

\* populate, lines 27-28 on an empty range: gen_range panics, main aborts
PopulatePanic ==
    /\ pc = "new"
    /\ width = 0 \/ height = 0
    /\ pc' = "panicked"
    /\ UNCHANGED <<width, height, data, visited, stack, start, file, ub, pushes, parent,
                   iters, rdata, rvisited, rstack>>

\* populate, lines 27-33 with inclusive ranges 0..=width, 0..=height
PopulateStart_inclusive ==
    /\ pc = "new"
    /\ \E start_x \in 0..width, start_y \in 0..height :
          /\ start' = <<start_x, start_y>>
          /\ stack' = << <<start_x, start_y>> >>
          /\ visited' = GridSetUnchecked(visited, start_x, start_y, TRUE)
          /\ ub' = ~InBounds(visited, start_x, start_y)
          /\ pushes' = CountPush(pushes, data, <<start_x, start_y>>)
          /\ rstack' = << <<start_x, start_y>> >>
          /\ rvisited' = GridSetUnchecked(rvisited, start_x, start_y, TRUE)
    /\ pc' = "loop"
    /\ UNCHANGED <<width, height, data, file, parent, iters, rdata>>

\* populate, lines 27-33: draw the start cell, push it, mark it visited
PopulateStart ==
    /\ pc = "new"
    /\ width > 0 /\ height > 0
    /\ \E start_x \in 0..(width - 1), start_y \in 0..(height - 1) :
          /\ start' = <<start_x, start_y>>
          /\ stack' = << <<start_x, start_y>> >>
          /\ visited' = GridSetUnchecked(visited, start_x, start_y, TRUE)
          /\ ub' = ~InBounds(visited, start_x, start_y)
          /\ pushes' = CountPush(pushes, data, <<start_x, start_y>>)
          /\ rstack' = << <<start_x, start_y>> >>
          /\ rvisited' = GridSetUnchecked(rvisited, start_x, start_y, TRUE)
    /\ pc' = "loop"
    /\ UNCHANGED <<width, height, data, file, parent, iters, rdata>>

\* populate, lines 35-68: one iteration of the carving loop
Step ==
    /\ pc = "loop"
    /\ stack # <<>> \/ rstack # <<>>
    /\ \E cands \in {IF stack # <<>>
                     THEN neighbours(Top(stack)[1], Top(stack)[2]) ELSE <<>>},
          rcands \in {IF rstack # <<>>
                      THEN neighboursSigned(Top(rstack)[1], Top(rstack)[2]) ELSE <<>>} :
       \E ok \in {IF stack # <<>> THEN Valid(data, visited, cands) ELSE <<>>},
          rok \in {IF rstack # <<>> THEN ValidSigned(rdata, rvisited, rcands) ELSE <<>>} :
       \* the outcomes of the iteration over all shuffles p, both runs on the same p
       \E both \in {<< IF stack # <<>>
                        THEN Iterate(data, visited, stack, FindValid(cands, ok, p))
                        ELSE <<data, visited, stack>>,
                        IF rstack # <<>>
                        THEN Iterate(rdata, rvisited, rstack, FindValid(rcands, rok, p))
                        ELSE <<rdata, rvisited, rstack>> >> : p \in Shuffles} :
       \E new \in {both[1]}, rnew \in {both[2]} :
          /\ data' = new[1]
          /\ visited' = new[2]
          /\ stack' = new[3]
          /\ rdata' = rnew[1]
          /\ rvisited' = rnew[2]
          /\ rstack' = rnew[3]
          /\ ub' = (ub \/ (/\ Len(new[3]) > Len(stack)
                           /\ ~InBounds(visited, Top(new[3])[1], Top(new[3])[2])))
          /\ pushes' = IF Len(new[3]) > Len(stack)
                       THEN CountPush(pushes, data, Top(new[3]))
                       ELSE pushes
          /\ parent' = IF Len(new[3]) > Len(stack)
                       THEN RecordParent(parent, data, Top(new[3]), Top(stack))
                       ELSE parent
    /\ iters' = iters + 1
    /\ UNCHANGED <<width, height, start, pc, file>>

\* populate, lines 73-75: the loop has ended; the forward scan places Start
PlaceStart ==
    /\ pc = "loop"
    /\ stack = <<>> /\ rstack = <<>>
    /\ data' = MarkFirstEmpty(data, "Start")
    /\ rdata' = MarkFirstEmpty(rdata, "Start")
    /\ pc' = "scanned"
    /\ UNCHANGED <<width, height, visited, stack, start, file, ub, pushes, parent,
                   iters, rvisited, rstack>>

\* populate, lines 77-84: the reverse scan places End; populate returns
PlaceEnd ==
    /\ pc = "scanned"
    /\ data' = MarkLastEmpty(data, "End")
    /\ rdata' = MarkLastEmpty(rdata, "End")
    /\ pc' = "populated"
    /\ UNCHANGED <<width, height, visited, stack, start, file, ub, pushes, parent,
                   iters, rvisited, rstack>>

\* maze.save_to_file(&opt.outfile)?, the file is written
SaveToFile ==
    /\ pc = "populated"
    /\ file' = Some(Encode(width, height, data))
    /\ pc' = "saved"
    /\ UNCHANGED <<width, height, data, visited, stack, start, ub, pushes, parent,
                   iters, rdata, rvisited, rstack>>

\* maze.save_to_file(&opt.outfile)?, File::create fails: main returns the error
SaveFails ==
    /\ pc = "populated"
    /\ pc' = "failed"
    /\ UNCHANGED <<width, height, data, visited, stack, start, file, ub, pushes, parent,
                   iters, rdata, rvisited, rstack>>

TypeOK ==
    /\ width \in 0..MaxWidth /\ height \in 0..MaxHeight
    /\ data.rows = width /\ data.cols = height
    /\ visited.rows = width /\ visited.cols = height
    /\ \A i \in DOMAIN data.cells : data.cells[i] \in TileState
    /\ \A i \in DOMAIN visited.cells : visited.cells[i] \in BOOLEAN
    /\ DOMAIN data.cells = 1..(width * height)
    /\ DOMAIN visited.cells = 1..(width * height)
    /\ pc \in {"new", "panicked", "loop", "scanned", "populated", "saved", "failed"}
    /\ ub \in BOOLEAN

Next ==
    \/ PopulatePanic
    \/ PopulateStart
    \/ Step
    \/ PlaceStart
    \/ PlaceEnd
    \/ SaveToFile
    \/ SaveFails

Spec == Init /\ [][Next]_vars

\* the program runs on: no step of main is postponed forever
FairSpec == Spec /\ WF_vars(Next)

-----------------------------------------------------------------------------
(* Vocabulary of the properties                                             *)

Abs(n) == IF n < 0 THEN -n ELSE n

\* the coordinates (x, y) populate uses
Cells == {c \in (0..(width - 1)) \X (0..(height - 1)) : TRUE}

TileAt(c) == data.cells[GridIndex(data, c[1], c[2])]
VisitedAt(c) == visited.cells[GridIndex(visited, c[1], c[2])]
PushesOf(c) == pushes[GridIndex(data, c[1], c[2])]
ParentOf(c) == parent[GridIndex(data, c[1], c[2])]

NonWall == {c \in Cells : TileAt(c) # "Wall"}

OrthAdj(a, b) == Abs(a[1] - b[1]) + Abs(a[2] - b[2]) = 1
DiagAdj(a, b) == Abs(a[1] - b[1]) = 1 /\ Abs(a[2] - b[2]) = 1

RECURSIVE SumSeq(_)
SumSeq(s) == IF s = <<>> THEN 0 ELSE Head(s) + SumSeq(Tail(s))

TotalPushes == SumSeq(pushes)

\* the cells of S reachable from `seen` along orthogonal steps inside S
RECURSIVE Reach(_, _)
Reach(seen, S) ==
    LET more == seen \cup {c \in S : \E d \in seen : OrthAdj(c, d)}
    IN  IF more = seen THEN seen ELSE Reach(more, S)

CountOf(tile) == Cardinality({i \in DOMAIN data.cells : data.cells[i] = tile})

\* storage indices (the order of data.iter()) of the carved tiles
CarvedIdx == {i \in DOMAIN data.cells : data.cells[i] # "Wall"}
FirstCarved == CHOOSE i \in CarvedIdx : \A j \in CarvedIdx : i <= j
LastCarved == CHOOSE i \in CarvedIdx : \A j \in CarvedIdx : i >= j

LoopEnded == pc \in {"scanned", "populated", "saved", "failed"} /\ stack = <<>>
AfterPopulate == pc \in {"populated", "saved", "failed"}

-----------------------------------------------------------------------------
(* C1: on every grid with width >= 1 and height >= 1, whatever the random   *)
(* choices, the carving loop ends with an empty stack; no coordinate is     *)
(* pushed twice and the pushes never exceed width * height.                 *)
PopulateTerminates ==
    /\ [][Len(stack') > Len(stack) =>
            /\ GridGet(visited, Top(stack')[1], Top(stack')[2]) = Some(FALSE)
            /\ GridGet(visited', Top(stack')[1], Top(stack')[2]) = Some(TRUE)]_vars
    /\ [](\A i \in DOMAIN pushes : pushes[i] <= 1)
    /\ [](TotalPushes <= width * height)
    /\ (width >= 1 /\ height >= 1) ~> LoopEnded

PopulateTerminatesWitness ==
    LoopEnded /\ TotalPushes >= 4

(* C2: after populate the carved cells form a tree under 4-neighbour        *)
(* adjacency: they contain the start cell, are connected, have one edge     *)
(* less than cells, and the carved neighbours of every carved cell are      *)
(* exactly its DFS parent and its DFS children.                             *)
CarvedCellsFormTree ==
    AfterPopulate =>
        /\ start \in NonWall
        /\ Reach({start}, NonWall) = NonWall
        /\ Cardinality({e \in NonWall \X NonWall : OrthAdj(e[1], e[2])})
              = 2 * (Cardinality(NonWall) - 1)
        /\ \A c \in NonWall :
              {n \in NonWall : OrthAdj(c, n)}
                 = {n \in Cells : n = ParentOf(c) \/ ParentOf(n) = c}

CarvedCellsFormTreeWitness ==
    /\ AfterPopulate
    /\ \E c \in NonWall : Cardinality({n \in NonWall : OrthAdj(c, n)}) >= 3

(* C3: in every state, two carved cells that touch diagonally have exactly  *)
(* one carved cell among the two cells adjacent to both: no passages        *)
(* touching only at a corner, no fully carved 2x2 block.                    *)
IsolationInvariant ==
    \A a, b \in NonWall :
        DiagAdj(a, b) =>
            (<<a[1], b[2]>> \in NonWall) # (<<b[1], a[2]>> \in NonWall)

IsolationInvariantWitness ==
    /\ pc = "loop"
    /\ \E a, b \in NonWall : DiagAdj(a, b)

CarvedVisitedPushedOnce ==
    /\ \A c \in NonWall : VisitedAt(c) = TRUE /\ PushesOf(c) = 1
    /\ \A i \in DOMAIN pushes : pushes[i] <= 1

CarvedVisitedPushedOnceWitness ==
    pc = "loop" /\ Cardinality(NonWall) >= 3 /\ Len(stack) >= 2

(* C8: the exported image has width * height pixels and the pixel at        *)
(* (row, col) has the colour of tile (x = col, y = row).                    *)
PixelIsTileColRow ==
    file # None =>
        /\ Len(file[1].pixels) = width * height
        /\ \A row \in 0..(height - 1), col \in 0..(width - 1) :
              <<PixelAt(file[1], row, col)>> = <<RGB8(TileAt(<<col, row>>))>>

SaturatingEqualsSigned ==
    AfterPopulate => data = rdata

SaturatingEqualsSignedWitness ==
    /\ AfterPopulate
    /\ data = rdata
    /\ Cardinality(NonWall) >= 3
    /\ <<0, 0>> \in NonWall

(* C11: determinism of populate under equal random values is a property   *)
(* of pairs of runs; every step of this model is a function of the state   *)
(* and of the values drawn, so it is not stated as a formula here.         *)

\* the cells whose visited flag is set
VisitedCells == {c \in Cells : VisitedAt(c) = TRUE}

\* the coordinates on the stack
OnStack == {stack[i] : i \in DOMAIN stack}

(* C12: during populate a visited flag that is true stays true in every     *)
(* later state; the number of visited cells never decreases and never       *)
(* exceeds width * height.                                                  *)
VisitedMonotone ==
    /\ [][/\ \A i \in DOMAIN visited.cells :
                visited.cells[i] = TRUE => visited'.cells[i] = TRUE
          /\ DOMAIN visited'.cells = DOMAIN visited.cells
          /\ Cardinality({i \in DOMAIN visited'.cells : visited'.cells[i] = TRUE})
                >= Cardinality({i \in DOMAIN visited.cells : visited.cells[i] = TRUE})]_vars
    /\ [](Cardinality({i \in DOMAIN visited.cells : visited.cells[i] = TRUE})
             <= width * height)

VisitedMonotoneWitness ==
    /\ pc = "loop"
    /\ Cardinality(VisitedCells) >= 3
    /\ Len(stack) < Cardinality(VisitedCells)

(* C13: a self-loop candidate is never selected: whenever a candidate of    *)
(* the stack top equals the stack top (South at row 0, West at column 0),   *)
(* is_valid_neighbour answers false for it.                                 *)
SelfLoopRejected ==
    (pc = "loop" /\ stack # <<>>) =>
        LET cands == neighbours(Top(stack)[1], Top(stack)[2])
        IN  \A i \in 1..4 :
               <<cands[i][1], cands[i][2]>> = Top(stack) =>
                  ~is_valid_neighbour(data, visited, cands[i][1], cands[i][2], cands[i][3])

SelfLoopRejectedWitness ==
    /\ pc = "loop" /\ stack # <<>>
    /\ Top(stack)[2] = 0 /\ Top(stack)[1] > 0
    /\ TileAt(Top(stack)) = "Wall"
    /\ Len(stack) >= 2

(* C14: every coordinate on the stack is inside the grid in every state,    *)
(* so the loop never takes the 'invalid tile' branch and no unchecked       *)
(* write to the visited grid lands outside it.                              *)
StackInBounds ==
    /\ \A i \in DOMAIN stack : InBounds(data, stack[i][1], stack[i][2])
    /\ (pc = "loop" /\ stack # <<>>) =>
           GridGet(data, Top(stack)[1], Top(stack)[2]) # None
    /\ ub = FALSE

StackInBoundsWitness ==
    /\ pc = "loop" /\ Len(stack) >= 3
    /\ Top(stack) = <<width - 1, height - 1>>

\* the 8 cells around (x, y), in signed coordinates
Around(x, y) ==
    {<<x + dx, y + dy>> : dx \in {-1, 0, 1}, dy \in {-1, 0, 1}} \ {<<x, y>>}

\* the cell the move in `direction` came from and the two diagonal cells
\* flanking it
CameFrom(x, y, direction) ==
    CASE direction = "North" -> {<<x - 1, y - 1>>, <<x, y - 1>>, <<x + 1, y - 1>>}
      [] direction = "South" -> {<<x - 1, y + 1>>, <<x, y + 1>>, <<x + 1, y + 1>>}
      [] direction = "East"  -> {<<x - 1, y - 1>>, <<x - 1, y>>, <<x - 1, y + 1>>}
      [] direction = "West"  -> {<<x + 1, y - 1>>, <<x + 1, y>>, <<x + 1, y + 1>>}

\* the reference predicate: in bounds, unvisited, and every surrounding cell
\* not come from is Wall or outside the grid
ReferenceValid(x, y, direction) ==
    /\ <<x, y>> \in Cells
    /\ VisitedAt(<<x, y>>) = FALSE
    /\ \A n \in Around(x, y) \ CameFrom(x, y, direction) :
          n \notin Cells \/ TileAt(n) = "Wall"

(* C15: for every candidate the loop evaluates in a reachable state,        *)
(* is_valid_neighbour (with its saturating x-1 / y-1) answers what the      *)
(* reference predicate answers: in bounds, unvisited, and the surrounding   *)
(* cells other than the one come from and its two flanking diagonals are    *)
(* all Wall or outside the grid.                                            *)
ValidMatchesReference ==
    (pc = "loop" /\ stack # <<>>) =>
        LET cands == neighbours(Top(stack)[1], Top(stack)[2])
        IN  \A i \in 1..4 :
               is_valid_neighbour(data, visited, cands[i][1], cands[i][2], cands[i][3])
                  = ReferenceValid(cands[i][1], cands[i][2], cands[i][3])

ValidMatchesReferenceWitness ==
    /\ pc = "loop" /\ stack # <<>>
    /\ Cardinality(NonWall) >= 2
    /\ LET cands == neighbours(Top(stack)[1], Top(stack)[2])
       IN  /\ \E i \in 1..4 :
                /\ cands[i][1] = 0
                /\ is_valid_neighbour(data, visited, cands[i][1], cands[i][2], cands[i][3])
           /\ \E i \in 1..4 :
                /\ GridGet(visited, cands[i][1], cands[i][2]) = Some(FALSE)
                /\ ~is_valid_neighbour(data, visited, cands[i][1], cands[i][2], cands[i][3])

\* a step that is one iteration of the carving loop
LoopIteration == pc = "loop" /\ stack # <<>> /\ pc' = "loop"

\* the tile grid with the stack top carved and nothing else changed
TopCarved == [data EXCEPT !.cells[GridIndex(data, Top(stack)[1], Top(stack)[2])] = "Empty"]

PushStep ==
    \E n \in Cells :
        /\ OrthAdj(n, Top(stack))
        /\ VisitedAt(n) = FALSE
        /\ stack' = Append(stack, n)
        /\ data' = TopCarved
        /\ visited' = [visited EXCEPT !.cells[GridIndex(visited, n[1], n[2])] = TRUE]

PopStep ==
    /\ stack' = SubSeq(stack, 1, Len(stack) - 1)
    /\ data' = TopCarved
    /\ visited' = visited

(* C16: every iteration of the carving loop is either a push (the top is    *)
(* carved, one unvisited in-bounds orthogonal neighbour becomes visited     *)
(* and is pushed) or a pop (the top is carved and popped, no flag changes); *)
(* every other tile, flag and stack entry is unchanged, and width and       *)
(* height never change.                                                     *)
IterationIsPushOrPop ==
    [][/\ LoopIteration => (PushStep \/ PopStep)
       /\ width' = width /\ height' = height]_vars

IterationIsPushOrPopWitness ==
    /\ pc = "loop" /\ Len(stack) >= 2
    /\ \E c \in NonWall : c \notin OnStack

\* some candidate of cell c satisfies is_valid_neighbour
Extendable(c) ==
    LET cands == neighbours(c[1], c[2])
    IN  \E i \in 1..4 :
           is_valid_neighbour(data, visited, cands[i][1], cands[i][2], cands[i][3])

\* the candidates (x, y, direction) of the cells of the grid
AllCandidates ==
    {neighbours(c[1], c[2])[i] : c \in Cells, i \in 1..4}

(* C17: when the carving loop ends no carved cell has a candidate that      *)
(* satisfies is_valid_neighbour; a candidate rejected in one state is       *)
(* rejected in every later state, so a popped cell (carved, no longer on    *)
(* the stack) can never be extended.                                        *)
MaximalAtTermination ==
    /\ [](((pc = "loop" /\ stack = <<>>) \/ LoopEnded) =>
             \A c \in NonWall : ~Extendable(c))
    /\ [](pc = "loop" => \A c \in NonWall \ OnStack : ~Extendable(c))
    /\ [][\A k \in AllCandidates :
             ~is_valid_neighbour(data, visited, k[1], k[2], k[3])
                => ~is_valid_neighbour(data', visited', k[1], k[2], k[3])]_vars

MaximalAtTerminationWitness ==
    /\ pc = "loop" /\ stack = <<>>
    /\ Cardinality(NonWall) >= 4
    /\ \E c \in Cells : TileAt(c) = "Wall" /\ VisitedAt(c) = FALSE

(* C18: in every state of the carving loop the stack is a simple path: it  *)
(* starts at the start cell, consecutive entries are orthogonally adjacent, *)
(* no coordinate occurs twice, every entry below the top is Empty, and      *)
(* every visited cell not on the stack is Empty (only the top can be        *)
(* visited and still Wall).                                                 *)
StackIsSimplePath ==
    pc = "loop" =>
        /\ stack # <<>> => stack[1] = start
        /\ \A i \in 1..(Len(stack) - 1) : OrthAdj(stack[i], stack[i + 1])
        /\ \A i, j \in DOMAIN stack : stack[i] = stack[j] => i = j
        /\ \A i \in 1..(Len(stack) - 1) : TileAt(stack[i]) = "Empty"
        /\ \A c \in VisitedCells \ OnStack : TileAt(c) = "Empty"
        /\ \A c \in VisitedCells : TileAt(c) = "Wall" => c = Top(stack)

StackIsSimplePathWitness ==
    /\ pc = "loop" /\ Len(stack) >= 3
    /\ TileAt(Top(stack)) = "Wall"
    /\ \E c \in VisitedCells : c \notin OnStack

(* C19: on every grid with width * height >= 2 the loop carves at least two *)
(* cells, so after populate Start and End are two distinct cells; only the  *)
(* 1x1 grid ends with a single carved cell.                                 *)
AtLeastTwoCarved ==
    AfterPopulate =>
        /\ width * height >= 2 =>
              /\ Cardinality(NonWall) >= 2
              /\ \E a, b \in Cells :
                    a # b /\ TileAt(a) = "Start" /\ TileAt(b) = "End"
        /\ Cardinality(NonWall) = 1 <=> (width = 1 /\ height = 1)

AtLeastTwoCarvedWitness ==
    AfterPopulate /\ width * height = 2 /\ Cardinality(NonWall) = 2

(* C20, as stated: when the loop ends the visited cells are the carved      *)
(* cells and the loop has run exactly 2 * k iterations, k the number of     *)
(* carved cells.                                                            *)
VisitedIsCarvedTwoK ==
    ((pc = "loop" /\ stack = <<>>) \/ LoopEnded) =>
        /\ VisitedCells = NonWall
        /\ iters = 2 * Cardinality(NonWall)

(* C20, amended: when the loop ends the visited cells are the carved cells  *)
(* and the loop has run exactly 2 * k - 1 iterations, k the number of       *)
(* carved cells: every cell is popped once and every cell but the start     *)
(* cell is pushed by an iteration.                                          *)
VisitedIsCarvedTwoKMinusOne ==
    ((pc = "loop" /\ stack = <<>>) \/ LoopEnded) =>
        /\ VisitedCells = NonWall
        /\ iters = 2 * Cardinality(NonWall) - 1

VisitedIsCarvedTwoKMinusOneWitness ==
    /\ pc = "loop" /\ stack = <<>>
    /\ Cardinality(NonWall) >= 3
    /\ iters = 2 * Cardinality(NonWall) - 1

====
